---- MODULE Spec2Model ----
(***************************************************************************)
(* The CRTC change reconciliation and commit engine of xrandr-rs:          *)
(* XHandle::apply_new_crtcs (src/src/lib.rs), its twin                     *)
(* ScreenResources::apply_new_crtcs (src/src/screen_resources.rs), the     *)
(* public operations that build a change set (enable, disable, set_mode,   *)
(* set_position, set_rotation) and the pure geometry helpers               *)
(* (src/src/crtc.rs, src/src/screensize.rs).                               *)
(*                                                                         *)
(* The X server is the backend: a table of controller records and the      *)
(* virtual screen size.  Every backend call of the code is one atomic      *)
(* step, so that another client of the same display can write between any  *)
(* two of them.                                                            *)
(***************************************************************************)
EXTENDS Integers, Sequences, FiniteSets, TLC

VARIABLES
    crtcs,      \* backend: controller id -> record held by the server
    screen,     \* backend: virtual screen size [width, height]
    held,       \* Output records the caller obtained from all_outputs()
    pc,         \* position of the running operation
    op,         \* the operation that is running
    variant,    \* which apply_new_crtcs runs: "XHandle" or "ScreenResources"
    changed,    \* `changed: &mut [Crtc]`, the change set of the commit
    snapshot,   \* enabled_crtcs() as apply_new_crtcs read it
    old_crtcs,  \* local of apply_new_crtcs: the snapshot, edited in place
    new_crtcs,  \* local of apply_new_crtcs
    new_size,   \* local of apply_new_crtcs
    to_apply,   \* local of apply_new_crtcs: indices into new_crtcs
    idx,        \* loop position of the disable pass / the apply pass
    result,     \* what the operation returned ("none" while running)
    log,        \* backend mutations issued by the running operation
    touched,    \* << id, when >>: writes of other clients during the operation
    clobbered,  \* ids the operation wrote over another client's write
    budget,     \* [ops, ext, faults]: what this behaviour may still do
    args,       \* the arguments of the running operation
    reads,      \* controller ids the running operation read from the backend
    past        \* the calls that returned, oldest first

vars == << crtcs, screen, held, pc, op, variant, changed, snapshot, old_crtcs,
           new_crtcs, new_size, to_apply, idx, result, log, touched, clobbered,
           budget, args, reads, past >>

-----------------------------------------------------------------------------
(* Bounds of the model.                                                    *)

MaxPos == 2     \* initial x positions are drawn from 0..MaxPos
MaxOps == 1     \* operations per behaviour
MaxExt == 1     \* writes of other clients per behaviour
MaxLen == 2     \* controllers handed to a pure helper
MaxToggles == 2 \* enable and disable calls per behaviour of SpecToggle

-----------------------------------------------------------------------------
(* Program constants.                                                      *)

CURRENT_TIME == 0
NoMode == 0
I32Max == 2147483647

-----------------------------------------------------------------------------
(* The display: two controllers, three outputs, two modes.                 *)

CrtcOrder == << 1, 2 >>                 \* ScreenResources.crtcs
CrtcIds == {1, 2}
OutputIds == {11, 12, 13}
ModeIds == {21, 22}                     \* ScreenResources.modes
UnknownModes == {99}                    \* an id with no entry in the mode table

Rotations == {"Normal", "Left", "Inverted", "Right"}
Relations == {"LeftOf", "RightOf", "Above", "Below", "SameAs"}

ModeWidth(m) == IF m = 21 THEN 2 ELSE 3
ModeHeight(m) == IF m = 21 THEN 1 ELSE 2

Possible(c) == IF c = 1 THEN << 11, 13 >> ELSE << 11, 12, 13 >>
OutputModes(o) == IF o = 13 THEN << >> ELSE << 21, 22 >>
PreferredModes(o) == IF o = 11 THEN << 21 >> ELSE IF o = 12 THEN << 22, 21 >> ELSE << >>
HomeOutput(c) == IF c = 1 THEN 11 ELSE 12

-----------------------------------------------------------------------------
(* Helpers.                                                                *)

Range(s) == { s[k] : k \in 1..Len(s) }
Contains(s, e) == \E k \in 1..Len(s) : s[k] = e
SetMin(S) == CHOOSE v \in S : \A w \in S : v <= w
SetMax(S) == CHOOSE v \in S : \A w \in S : v >= w
IndexOf(s, xid) == CHOOSE k \in 1..Len(s) : s[k].xid = xid
HasXid(s, xid) == \E k \in 1..Len(s) : s[k].xid = xid

-----------------------------------------------------------------------------
(* crtc.rs: the pure helpers of a controller record                        *)
(*   [xid, timestamp, x, y, width, height, mode, rotation, outputs,        *)
(*    possible].                                                           *)

\* Crtc::disable without its trailing apply: what lib.rs calls set_disable.
set_disable(c) ==
    [c EXCEPT !.x = 0, !.y = 0, !.mode = NoMode, !.rotation = "Normal",
              !.outputs = << >>]

Swaps(rot) == rot \in {"Left", "Right"}

\* Mutant: the current rotation is not undone first.
rotated_size_from_stored(c, rot) ==
    IF Swaps(rot) THEN << c.height, c.width >> ELSE << c.width, c.height >>

\* Mutant: the size is kept whatever the rotation.
rotated_size_kept(c, rot) == << c.width, c.height >>

\* Crtc::rotated_size: un-rotate to the base size, then rotate to `rot`.
rotated_size(c, rot) ==
    LET old_w == IF Swaps(c.rotation) THEN c.height ELSE c.width
        old_h == IF Swaps(c.rotation) THEN c.width ELSE c.height
    IN  IF Swaps(rot) THEN << old_h, old_w >> ELSE << old_w, old_h >>

\* Crtc::max_coordinates asserts x >= 0 && y >= 0.
MaxCoordinatesPanics(c) == ~(c.x >= 0 /\ c.y >= 0)
max_coordinates(c) == << c.x + c.width, c.y + c.height >>

\* Crtc::offset: the sum is taken in i64 and asserted to be in [0, i32::MAX).
OffsetPanics(c, dx, dy) ==
    \/ ~(c.x + dx < I32Max /\ c.y + dy < I32Max)
    \/ ~(c.x + dx >= 0 /\ c.y + dy >= 0)
offset(c, dx, dy) == [c EXCEPT !.x = c.x + dx, !.y = c.y + dy]

LeftOfAll(cs) == SetMin({ cs[k].x : k \in 1..Len(cs) })
TopOfAll(cs) == SetMin({ cs[k].y : k \in 1..Len(cs) })

NormalizePanics(cs) ==
    /\ Len(cs) > 0
    /\ ~(TopOfAll(cs) = 0 /\ LeftOfAll(cs) = 0)
    /\ \E k \in 1..Len(cs) : OffsetPanics(cs[k], -LeftOfAll(cs), -TopOfAll(cs))

\* Mutant: returns early when only the top edge is at 0.
normalize_positions_top_only(cs) ==
    IF Len(cs) = 0 THEN cs
    ELSE IF TopOfAll(cs) = 0 THEN cs
    ELSE [k \in 1..Len(cs) |-> offset(cs[k], -LeftOfAll(cs), -TopOfAll(cs))]

\* Mutant: every controller is moved by its own position.
normalize_positions_each_to_origin(cs) ==
    IF Len(cs) = 0 THEN cs
    ELSE IF TopOfAll(cs) = 0 /\ LeftOfAll(cs) = 0 THEN cs
    ELSE [k \in 1..Len(cs) |-> offset(cs[k], -cs[k].x, -cs[k].y)]

\* Mutant: the positions are left as they are.
normalize_positions_skipped(cs) == cs

normalize_positions(cs) ==
    IF Len(cs) = 0 THEN cs
    ELSE IF TopOfAll(cs) = 0 /\ LeftOfAll(cs) = 0 THEN cs
    ELSE [k \in 1..Len(cs) |-> offset(cs[k], -LeftOfAll(cs), -TopOfAll(cs))]

-----------------------------------------------------------------------------
(* screensize.rs                                                           *)

\* Mutant: only the width is compared.
fits_crtc_width_only(size, c) == max_coordinates(c)[1] <= size.width

\* Mutant: a controller that reaches the edge of the screen does not fit.
fits_crtc_strict(size, c) ==
    /\ max_coordinates(c)[1] < size.width
    /\ max_coordinates(c)[2] < size.height

fits_crtc(size, c) ==
    /\ max_coordinates(c)[1] <= size.width
    /\ max_coordinates(c)[2] <= size.height

\* ScreenSize::fitting_crtcs asserts a non-empty input and, through
\* max_coordinates, non-negative positions.  The millimetre fields are
\* derived from the pixel fields and the display's dpi; nothing reads them.
FittingPanics(cs) ==
    \/ Len(cs) = 0
    \/ \E k \in 1..Len(cs) : MaxCoordinatesPanics(cs[k])

\* Mutant: the size covers the first controller only.
fitting_crtcs_first_only(cs) ==
    [width |-> max_coordinates(cs[1])[1],
     height |-> max_coordinates(cs[1])[2]]

fitting_crtcs(cs) ==
    [width |-> SetMax({ max_coordinates(cs[k])[1] : k \in 1..Len(cs) }),
     height |-> SetMax({ max_coordinates(cs[k])[2] : k \in 1..Len(cs) })]

-----------------------------------------------------------------------------
(* The backend (X server) as the code uses it.                             *)

\* width and height of XRRCrtcInfo: the mode's size at the rotation.
ServerWidth(mode, rot) ==
    IF mode \notin ModeIds THEN 0
    ELSE IF Swaps(rot) THEN ModeHeight(mode) ELSE ModeWidth(mode)
ServerHeight(mode, rot) ==
    IF mode \notin ModeIds THEN 0
    ELSE IF Swaps(rot) THEN ModeWidth(mode) ELSE ModeHeight(mode)

\* XRRGetCrtcInfo + Crtc::new: copy the server's record into a Crtc.
crtc(b, xid) ==
    [xid |-> xid, timestamp |-> b[xid].timestamp,
     x |-> b[xid].x, y |-> b[xid].y,
     width |-> b[xid].width, height |-> b[xid].height,
     mode |-> b[xid].mode, rotation |-> b[xid].rotation,
     outputs |-> b[xid].outputs, possible |-> Possible(xid)]

\* ScreenResources::crtcs and ::enabled_crtcs.
all_crtcs(b) == [k \in 1..Len(CrtcOrder) |-> crtc(b, CrtcOrder[k])]
IsEnabled(c) == c.mode # NoMode
enabled_crtcs(b) == SelectSeq(all_crtcs(b), IsEnabled)

\* Mutant: every id is found.
ModeFound_any(m) == TRUE

\* ScreenResources::mode: the lookup fails for an id absent from the table.
ModeFound(m) == m \in ModeIds

\* XRRSetCrtcConfig called as set_crtc_config calls it: the server takes
\* x, y, mode, rotation and outputs; the timestamp argument is CURRENT_TIME,
\* which the server never refuses as stale.
TimeArgument == CURRENT_TIME
ServerAccepts(b, time, c) == time = CURRENT_TIME \/ time >= b[c.xid].timestamp
\* Mutant: the outputs of the record are not sent.
set_crtc_config_no_outputs(b, c) ==
    [b EXCEPT ![c.xid] =
        [timestamp |-> @.timestamp,
         x |-> c.x, y |-> c.y,
         width |-> ServerWidth(c.mode, c.rotation),
         height |-> ServerHeight(c.mode, c.rotation),
         mode |-> c.mode, rotation |-> c.rotation,
         outputs |-> @.outputs]]

set_crtc_config(b, c) ==
    IF ServerAccepts(b, TimeArgument, c)
    THEN [b EXCEPT ![c.xid] =
            [timestamp |-> @.timestamp,
             x |-> c.x, y |-> c.y,
             width |-> ServerWidth(c.mode, c.rotation),
             height |-> ServerHeight(c.mode, c.rotation),
             mode |-> c.mode, rotation |-> c.rotation,
             outputs |-> c.outputs]]
    ELSE b

\* XRRSetScreenSize: the server refuses a size that would leave an active
\* controller out of bounds; set_screensize has no result to look at.
ResizeAccepted(b, size) ==
    \A c \in CrtcIds :
        b[c].mode # NoMode =>
            /\ b[c].x + b[c].width <= size.width
            /\ b[c].y + b[c].height <= size.height
set_screensize(b, scr, size) == IF ResizeAccepted(b, size) THEN size ELSE scr

-----------------------------------------------------------------------------
(* Output records, as Output::from_xid fills them from the server.         *)

ServerOutputCrtc(b, o) ==
    IF \E c \in CrtcIds : Contains(b[c].outputs, o)
    THEN SetMin({ c \in CrtcIds : Contains(b[c].outputs, o) })
    ELSE 0

\* crtc and current_mode hold 0 for None.
output(b, o) ==
    LET c == ServerOutputCrtc(b, o)
    IN  [xid |-> o,
         crtc |-> c,
         current_mode |->
            IF c # 0 /\ Contains(OutputModes(o), b[c].mode) THEN b[c].mode ELSE 0]

all_outputs(b) == [o \in OutputIds |-> output(b, o)]

-----------------------------------------------------------------------------
(* Initial states: every layout of the two controllers in which a          *)
(* controller is off or drives its own output, unrotated, at y = 0 and     *)
(* x in 0..MaxPos; the screen is the bounding box of what is enabled.      *)

DisabledRecord ==
    [timestamp |-> 1, x |-> 0, y |-> 0, width |-> 0, height |-> 0,
     mode |-> NoMode, rotation |-> "Normal", outputs |-> << >>]

EnabledRecord(c, m, rot, px, py) ==
    [timestamp |-> 1, x |-> px, y |-> py,
     width |-> ServerWidth(m, rot), height |-> ServerHeight(m, rot),
     mode |-> m, rotation |-> rot, outputs |-> << HomeOutput(c) >>]

InitRecords(c) ==
    {DisabledRecord} \cup
    { EnabledRecord(c, m, "Normal", px, 0) : m \in ModeIds, px \in 0..MaxPos }

BoundingBox(b) ==
    IF enabled_crtcs(b) = << >> THEN [width |-> 0, height |-> 0]
    ELSE fitting_crtcs(enabled_crtcs(b))

\* The arguments of an operation: the output, and for set_position the
\* relation and the reference output, for set_mode the mode, for
\* set_rotation the rotation; 0 and "none" where there is none.
Args(o, rel, o2, m, rot) ==
    [out |-> o, rel |-> rel, ref |-> o2, mode |-> m, rot |-> rot]
NoArgs == Args(0, "none", 0, 0, "none")

NoLocals ==
    /\ args = NoArgs
    /\ reads = {}
    /\ past = << >>
    /\ pc = "idle"
    /\ op = "none"
    /\ variant = "none"
    /\ changed = << >>
    /\ snapshot = << >>
    /\ old_crtcs = << >>
    /\ new_crtcs = << >>
    /\ new_size = [width |-> 0, height |-> 0]
    /\ to_apply = << >>
    /\ idx = 0
    /\ result = "none"
    /\ log = << >>
    /\ touched = {}
    /\ clobbered = {}

InitBackend ==
    /\ crtcs \in [CrtcIds -> UNION { InitRecords(c) : c \in CrtcIds }]
    /\ \A c \in CrtcIds : crtcs[c] \in InitRecords(c)
    /\ screen = BoundingBox(crtcs)
    /\ held = all_outputs(crtcs)

Init ==
    /\ InitBackend
    /\ NoLocals
    /\ budget = [ops |-> MaxOps, ext |-> MaxExt, faults |-> FALSE]

-----------------------------------------------------------------------------
(* apply_new_crtcs up to its first backend mutation: the snapshot, the new *)
(* topology, (ScreenResources only) the mode-derived sizes, normalization  *)
(* and the covering size.                                                  *)

ChangedIds(ch) == { ch[k].xid : k \in 1..Len(ch) }

\* Mutant: the first entry of an id wins.
LastOf_first(ch, xid) == ch[SetMin({ k \in 1..Len(ch) : ch[k].xid = xid })]

\* changed_map.insert(c.xid, c) in slice order: the last entry of an id wins.
LastOf(ch, xid) == ch[SetMax({ k \in 1..Len(ch) : ch[k].xid = xid })]

\* for crtc in &old_crtcs { match changed_map.remove(&crtc.xid) ... }
Merged(old, ch) ==
    [k \in 1..Len(old) |->
        IF old[k].xid \in ChangedIds(ch) THEN LastOf(ch, old[k].xid) ELSE old[k]]

\* changed_map.drain(): what is left, in an order the HashMap chooses.
Leftover(old, ch) == ChangedIds(ch) \ ChangedIds(old)
Orders(S) ==
    { s \in [1..Cardinality(S) -> S] :
        \A i, j \in 1..Cardinality(S) : i # j => s[i] # s[j] }

\* Mutant: what is left in the map goes in front of the snapshot's entries.
NewTopology_leftover_first(old, ch, tail) ==
    [k \in 1..Len(tail) |-> LastOf(ch, tail[k])] \o Merged(old, ch)

NewTopology(old, ch, tail) ==
    Merged(old, ch) \o [k \in 1..Len(tail) |-> LastOf(ch, tail[k])]

\* ScreenResources::apply_new_crtcs only: width and height from the mode
\* table, for every controller of the new topology.
LookupFails(cs) == \E k \in 1..Len(cs) : ~ModeFound(cs[k].mode)
Resolved(cs) ==
    [k \in 1..Len(cs) |->
        [cs[k] EXCEPT !.width = ModeWidth(cs[k].mode),
                      !.height = ModeHeight(cs[k].mode)]]

\* The first old controller at or after k that the disable pass stops at:
\* one that does not fit (or on which max_coordinates panics).
\* Mutant: the negation of the test is lost.
ViolatesInverted(size, c) == MaxCoordinatesPanics(c) \/ fits_crtc(size, c)
\* Mutant: every old controller is disabled before the resize.
ViolatesAlways(size, c) == TRUE

Violates(size, c) == MaxCoordinatesPanics(c) \/ ~fits_crtc(size, c)
NextViolator(old, size, k) ==
    IF \E j \in k..Len(old) : Violates(size, old[j])
    THEN SetMin({ j \in k..Len(old) : Violates(size, old[j]) })
    ELSE Len(old) + 1

\* The zip_longest of old_crtcs and new_crtcs: the conflict check and the
\* list of what to apply; it stops at the first assertion or stale entry.
\* Mutant: the timestamps are not compared.
RECURSIVE DiffNoConflictCheck(_, _, _, _)
DiffNoConflictCheck(old, new, k, acc) ==
    IF k > Len(old) /\ k > Len(new) THEN [result |-> "Ok", to_apply |-> acc]
    ELSE IF k > Len(new) THEN [result |-> "panic", to_apply |-> acc]
    ELSE IF k > Len(old) THEN DiffNoConflictCheck(old, new, k + 1, Append(acc, k))
    ELSE IF old[k].xid # new[k].xid THEN [result |-> "panic", to_apply |-> acc]
    ELSE IF new[k] # old[k] THEN DiffNoConflictCheck(old, new, k + 1, Append(acc, k))
    ELSE DiffNoConflictCheck(old, new, k + 1, acc)

\* Mutant: every paired controller is scheduled, changed or not.
RECURSIVE DiffAlwaysApply(_, _, _, _)
DiffAlwaysApply(old, new, k, acc) ==
    IF k > Len(old) /\ k > Len(new) THEN [result |-> "Ok", to_apply |-> acc]
    ELSE IF k > Len(new) THEN [result |-> "panic", to_apply |-> acc]
    ELSE IF k > Len(old) THEN DiffAlwaysApply(old, new, k + 1, Append(acc, k))
    ELSE IF old[k].xid # new[k].xid THEN [result |-> "panic", to_apply |-> acc]
    ELSE IF new[k].timestamp < old[k].timestamp
         THEN [result |-> "CrtcChanged", to_apply |-> acc]
    ELSE DiffAlwaysApply(old, new, k + 1, Append(acc, k))

\* Mutant: a paired controller is scheduled only if its position differs.
RECURSIVE DiffPositionOnly(_, _, _, _)
DiffPositionOnly(old, new, k, acc) ==
    IF k > Len(old) /\ k > Len(new) THEN [result |-> "Ok", to_apply |-> acc]
    ELSE IF k > Len(new) THEN [result |-> "panic", to_apply |-> acc]
    ELSE IF k > Len(old) THEN DiffPositionOnly(old, new, k + 1, Append(acc, k))
    ELSE IF old[k].xid # new[k].xid THEN [result |-> "panic", to_apply |-> acc]
    ELSE IF new[k].timestamp < old[k].timestamp
         THEN [result |-> "CrtcChanged", to_apply |-> acc]
    ELSE IF new[k].x # old[k].x \/ new[k].y # old[k].y
         THEN DiffPositionOnly(old, new, k + 1, Append(acc, k))
    ELSE DiffPositionOnly(old, new, k + 1, acc)

RECURSIVE Diff(_, _, _, _)
Diff(old, new, k, acc) ==
    IF k > Len(old) /\ k > Len(new) THEN [result |-> "Ok", to_apply |-> acc]
    ELSE IF k > Len(new) THEN [result |-> "panic", to_apply |-> acc]
    ELSE IF k > Len(old) THEN Diff(old, new, k + 1, Append(acc, k))
    ELSE IF old[k].xid # new[k].xid THEN [result |-> "panic", to_apply |-> acc]
    ELSE IF new[k].timestamp < old[k].timestamp
         THEN [result |-> "CrtcChanged", to_apply |-> acc]
    ELSE IF new[k] # old[k] THEN Diff(old, new, k + 1, Append(acc, k))
    ELSE Diff(old, new, k + 1, acc)

Finish(res) ==
    /\ pc' = "done"
    /\ result' = res

TouchedIds == { t[1] : t \in touched }

Statuses == IF budget.faults THEN {"Success", "Failed"} ELSE {"Success"}

Sent(c) ==
    [x |-> c.x, y |-> c.y, mode |-> c.mode, rotation |-> c.rotation,
     outputs |-> c.outputs]

\* One call of ScreenResources::set_crtc_config: the server's status is
\* dropped and Ok(()) is returned whatever it was.
SetCrtcConfig(call, c, st) ==
    /\ crtcs' = IF st = "Success" THEN set_crtc_config(crtcs, c) ELSE crtcs
    /\ log' = Append(log, [call |-> call, xid |-> c.xid, sent |-> Sent(c),
                           status |-> st])
    /\ clobbered' = IF st = "Success" /\ c.xid \in TouchedIds
                    THEN clobbered \cup {c.xid} ELSE clobbered

Reconcile ==
    /\ pc = "called"
    /\ LET old == enabled_crtcs(crtcs)
       IN  \E tail \in Orders(Leftover(old, changed)) :
             LET merged == NewTopology(old, changed, tail)
                 sized == IF variant = "ScreenResources"
                          THEN Resolved(merged) ELSE merged
                 new == normalize_positions(sized)
             IN  /\ snapshot' = old
                 /\ old_crtcs' = old
                 /\ IF variant = "ScreenResources" /\ LookupFails(merged)
                    THEN /\ Finish("GetModeInfo")
                         /\ UNCHANGED << new_crtcs, new_size, idx >>
                    ELSE IF NormalizePanics(sized) \/ FittingPanics(new)
                    THEN /\ Finish("panic")
                         /\ new_crtcs' = sized
                         /\ UNCHANGED << new_size, idx >>
                    ELSE /\ new_crtcs' = new
                         /\ new_size' = fitting_crtcs(new)
                         /\ idx' = NextViolator(old, fitting_crtcs(new), 1)
                         /\ pc' = IF NextViolator(old, fitting_crtcs(new), 1) > Len(old)
                                  THEN "resize" ELSE "disable"
                         /\ UNCHANGED result
    /\ UNCHANGED << crtcs, screen, held, op, variant, changed, to_apply, log,
                    touched, clobbered, budget >>
    /\ reads' = reads \cup CrtcIds
    /\ UNCHANGED << args, past >>

\* The disable pass at a controller that does not fit the new size.
DisableStep ==
    /\ pc = "disable"
    /\ IF MaxCoordinatesPanics(old_crtcs[idx])
       THEN /\ Finish("panic")
            /\ UNCHANGED << crtcs, old_crtcs, idx, log, clobbered >>
       ELSE \E st \in Statuses :
            LET off == set_disable(old_crtcs[idx])
                old == [old_crtcs EXCEPT ![idx] = off]
                nxt == NextViolator(old, new_size, idx + 1)
            IN  /\ SetCrtcConfig("disable", off, st)
                /\ old_crtcs' = old
                /\ idx' = nxt
                /\ pc' = IF nxt > Len(old) THEN "resize" ELSE "disable"
                /\ UNCHANGED result
    /\ UNCHANGED << screen, held, op, variant, changed, snapshot, new_crtcs,
                    new_size, to_apply, touched, budget >>
    /\ UNCHANGED << args, reads, past >>

\* Mutant: the resize is issued before the disable pass has run.
ResizeBeforeDisable ==
    /\ pc = "disable"
    /\ Len(log) = 0
    /\ screen' = set_screensize(crtcs, screen, new_size)
    /\ log' = Append(log, [call |-> "resize", xid |-> 0, sent |-> new_size,
                           status |-> IF ResizeAccepted(crtcs, new_size)
                                      THEN "Success" ELSE "Failed"])
    /\ UNCHANGED << crtcs, held, pc, op, variant, changed, snapshot,
                    old_crtcs, new_crtcs, new_size, to_apply, idx, result,
                    touched, clobbered, budget >>
    /\ UNCHANGED << args, reads, past >>

\* set_screensize, then the conflict check and the diff.
Resize ==
    /\ pc = "resize"
    /\ screen' = set_screensize(crtcs, screen, new_size)
    /\ log' = Append(log, [call |-> "resize", xid |-> 0, sent |-> new_size,
                           status |-> IF ResizeAccepted(crtcs, new_size)
                                      THEN "Success" ELSE "Failed"])
    /\ LET d == Diff(old_crtcs, new_crtcs, 1, << >>)
       IN  /\ to_apply' = d.to_apply
           /\ IF d.result # "Ok" THEN Finish(d.result) /\ UNCHANGED idx
              ELSE IF d.to_apply = << >> THEN Finish("Ok") /\ UNCHANGED idx
              ELSE pc' = "apply" /\ idx' = 1 /\ UNCHANGED result
    /\ UNCHANGED << crtcs, held, op, variant, changed, snapshot, old_crtcs,
                    new_crtcs, new_size, touched, clobbered, budget >>
    /\ UNCHANGED << args, reads, past >>

\* to_apply.iter_mut().try_for_each(|c| set_crtc_config(c)), one call.
ApplyStep ==
    /\ pc = "apply"
    /\ \E st \in Statuses :
         SetCrtcConfig("apply", new_crtcs[to_apply[idx]], st)
    /\ IF idx = Len(to_apply)
       THEN Finish("Ok") /\ UNCHANGED idx
       ELSE idx' = idx + 1 /\ UNCHANGED << pc, result >>
    /\ UNCHANGED << screen, held, op, variant, changed, snapshot, old_crtcs,
                    new_crtcs, new_size, to_apply, touched, budget >>
    /\ UNCHANGED << args, reads, past >>

\* The operation has returned; its locals are dropped.
Return ==
    /\ pc = "done"
    /\ pc' = "idle"
    /\ op' = "none"
    /\ variant' = "none"
    /\ changed' = << >>
    /\ snapshot' = << >>
    /\ old_crtcs' = << >>
    /\ new_crtcs' = << >>
    /\ new_size' = [width |-> 0, height |-> 0]
    /\ to_apply' = << >>
    /\ idx' = 0
    /\ result' = "none"
    /\ log' = << >>
    /\ touched' = {}
    /\ clobbered' = {}
    /\ UNCHANGED << crtcs, screen, held, budget >>
    /\ args' = NoArgs
    /\ reads' = {}
    /\ past' = Append(past, [op |-> op, out |-> args.out, result |-> result,
                             writes |-> Len(log)])

-----------------------------------------------------------------------------
(* The operations of XHandle that build a change set (lib.rs).  Each reads *)
(* the backend once and then calls apply_new_crtcs, or returns early.      *)

OutputDisabled(o) ==
    CASE o = 11 -> "OutputDisabled(11)"
      [] o = 12 -> "OutputDisabled(12)"
      [] OTHER -> "OutputDisabled(13)"

\* self.apply_new_crtcs(&mut [crtc]) is about to run.
Call(name, ch, v) ==
    /\ pc' = "called"
    /\ op' = name
    /\ changed' = ch
    /\ variant' = v
    /\ budget' = [budget EXCEPT !.ops = @ - 1]
    /\ UNCHANGED << crtcs, screen, held, snapshot, old_crtcs, new_crtcs,
                    new_size, to_apply, idx, result, log, touched, clobbered >>

\* The operation returns before it reaches apply_new_crtcs.
EarlyReturn(name, res) ==
    /\ Finish(res)
    /\ op' = name
    /\ budget' = [budget EXCEPT !.ops = @ - 1]
    /\ UNCHANGED << crtcs, screen, held, variant, changed, snapshot, old_crtcs,
                    new_crtcs, new_size, to_apply, idx, log, touched,
                    clobbered >>

\* find_available_crtc: the first controller, in the server's order, that
\* can drive the output and drives nothing.
\* Mutant: a controller that drives an output counts as available.
Available_also_busy(c, o) == Contains(c.possible, o)

Available(c, o) == Contains(c.possible, o) /\ c.outputs = << >>
HasAvailable(b, o) ==
    \E k \in 1..Len(all_crtcs(b)) : Available(all_crtcs(b)[k], o)
find_available_crtc(b, o) ==
    all_crtcs(b)[SetMin({ k \in 1..Len(all_crtcs(b)) :
                            Available(all_crtcs(b)[k], o) })]

\* Mutant: the current mode of the record is not looked at.
Enable_ignores_current_mode(o) ==
    /\ pc = "idle"
    /\ budget.ops > 0
    /\ IF PreferredModes(o) = << >> THEN EarlyReturn("enable", "NoPreferredModes")
       ELSE IF ~HasAvailable(crtcs, o) THEN EarlyReturn("enable", "NoCrtcAvailable")
       ELSE IF ~ModeFound(Head(PreferredModes(o))) THEN EarlyReturn("enable", "GetModeInfo")
       ELSE LET m == Head(PreferredModes(o))
            IN  Call("enable", << [find_available_crtc(crtcs, o) EXCEPT
                            !.mode = m,
                            !.width = ModeWidth(m),
                            !.height = ModeHeight(m),
                            !.outputs = << o >>] >>, "XHandle")
    /\ args' = Args(o, "none", 0, 0, "none")
    /\ reads' = IF PreferredModes(o) = << >>
                THEN {} ELSE CrtcIds
    /\ UNCHANGED past

Enable(o) ==
    /\ pc = "idle"
    /\ budget.ops > 0
    /\ IF held[o].current_mode # 0 THEN EarlyReturn("enable", "Ok")
       ELSE IF PreferredModes(o) = << >> THEN EarlyReturn("enable", "NoPreferredModes")
       ELSE IF ~HasAvailable(crtcs, o) THEN EarlyReturn("enable", "NoCrtcAvailable")
       ELSE IF ~ModeFound(Head(PreferredModes(o))) THEN EarlyReturn("enable", "GetModeInfo")
       ELSE LET m == Head(PreferredModes(o))
            IN  Call("enable", << [find_available_crtc(crtcs, o) EXCEPT
                            !.mode = m,
                            !.width = ModeWidth(m),
                            !.height = ModeHeight(m),
                            !.outputs = << o >>] >>, "XHandle")
    /\ args' = Args(o, "none", 0, 0, "none")
    /\ reads' = IF held[o].current_mode # 0 \/ PreferredModes(o) = << >>
                THEN {} ELSE CrtcIds
    /\ UNCHANGED past

Disable(o) ==
    /\ pc = "idle"
    /\ budget.ops > 0
    /\ IF held[o].crtc = 0 THEN EarlyReturn("disable", "Ok")
       ELSE Call("disable", << set_disable(crtc(crtcs, held[o].crtc)) >>, "XHandle")
    /\ args' = Args(o, "none", 0, 0, "none")
    /\ reads' = IF held[o].crtc = 0 THEN {} ELSE {held[o].crtc}
    /\ UNCHANGED past

SetMode(o, m) ==
    /\ pc = "idle"
    /\ budget.ops > 0
    /\ IF held[o].crtc = 0 THEN EarlyReturn("set_mode", OutputDisabled(o))
       ELSE Call("set_mode", << [crtc(crtcs, held[o].crtc) EXCEPT !.mode = m] >>, "XHandle")
    /\ args' = Args(o, "none", 0, m, "none")
    /\ reads' = IF held[o].crtc = 0 THEN {} ELSE {held[o].crtc}
    /\ UNCHANGED past

\* Mutant: LeftOf and Above step back by the reference's size.
Placed_by_reference_size(c, rel, ref) ==
    CASE rel = "LeftOf" -> << ref.x - ref.width, ref.y >>
      [] rel = "RightOf" -> << ref.x + ref.width, ref.y >>
      [] rel = "Above" -> << ref.x, ref.y - ref.height >>
      [] rel = "Below" -> << ref.x, ref.y + ref.height >>
      [] OTHER -> << ref.x, ref.y >>

\* Mutant: every relation places the controller on the reference.
Placed_on_reference(c, rel, ref) == << ref.x, ref.y >>

\* The (x, y) of set_position's match on the relation.
Placed(c, rel, ref) ==
    CASE rel = "LeftOf" -> << ref.x - c.width, ref.y >>
      [] rel = "RightOf" -> << ref.x + ref.width, ref.y >>
      [] rel = "Above" -> << ref.x, ref.y - c.height >>
      [] rel = "Below" -> << ref.x, ref.y + ref.height >>
      [] OTHER -> << ref.x, ref.y >>

\* Mutant: the error for a disabled reference names the first output.
SetPosition_names_first_output(o, rel, o2) ==
    /\ pc = "idle"
    /\ budget.ops > 0
    /\ IF held[o].crtc = 0 THEN EarlyReturn("set_position", OutputDisabled(o))
       ELSE IF held[o2].crtc = 0 THEN EarlyReturn("set_position", OutputDisabled(o))
       ELSE LET c == crtc(crtcs, held[o].crtc)
                ref == crtc(crtcs, held[o2].crtc)
            IN  Call("set_position", << [c EXCEPT !.x = Placed(c, rel, ref)[1],
                                  !.y = Placed(c, rel, ref)[2]] >>, "XHandle")
    /\ args' = Args(o, rel, o2, 0, "none")
    /\ reads' = IF held[o].crtc = 0 \/ held[o2].crtc = 0 THEN {}
                ELSE {held[o].crtc, held[o2].crtc}
    /\ UNCHANGED past

SetPosition(o, rel, o2) ==
    /\ pc = "idle"
    /\ budget.ops > 0
    /\ IF held[o].crtc = 0 THEN EarlyReturn("set_position", OutputDisabled(o))
       ELSE IF held[o2].crtc = 0 THEN EarlyReturn("set_position", OutputDisabled(o2))
       ELSE LET c == crtc(crtcs, held[o].crtc)
                ref == crtc(crtcs, held[o2].crtc)
            IN  Call("set_position", << [c EXCEPT !.x = Placed(c, rel, ref)[1],
                                  !.y = Placed(c, rel, ref)[2]] >>, "XHandle")
    /\ args' = Args(o, rel, o2, 0, "none")
    /\ reads' = IF held[o].crtc = 0 \/ held[o2].crtc = 0 THEN {}
                ELSE {held[o].crtc, held[o2].crtc}
    /\ UNCHANGED past

SetRotation(o, rot) ==
    /\ pc = "idle"
    /\ budget.ops > 0
    /\ IF held[o].crtc = 0 THEN EarlyReturn("set_rotation", OutputDisabled(o))
       ELSE LET c == crtc(crtcs, held[o].crtc)
            IN  Call("set_rotation", << [c EXCEPT !.width = rotated_size(c, rot)[1],
                                  !.height = rotated_size(c, rot)[2],
                                  !.rotation = rot] >>, "XHandle")
    /\ args' = Args(o, "none", 0, 0, rot)
    /\ reads' = IF held[o].crtc = 0 THEN {} ELSE {held[o].crtc}
    /\ UNCHANGED past

\* XHandle::all_outputs: the caller refreshes its Output records.
AllOutputs ==
    /\ pc = "idle"
    /\ budget.ops > 0
    /\ held # all_outputs(crtcs)
    /\ held' = all_outputs(crtcs)
    /\ UNCHANGED << crtcs, screen, pc, op, variant, changed, snapshot,
                    old_crtcs, new_crtcs, new_size, to_apply, idx, result,
                    log, touched, clobbered, budget >>
    /\ past' = Append(past, [op |-> "all_outputs", out |-> 0, result |-> "Ok",
                             writes |-> 0])
    /\ UNCHANGED << args, reads >>

-----------------------------------------------------------------------------
(* apply_new_crtcs called with a change set of the caller's making: records *)
(* read from the backend and edited.                                       *)

Edits == {"disable", "left", "right", "up", "origin", "enable", "mode",
          "badmode"}

Edit(c, e) ==
    CASE e = "disable" -> set_disable(c)
      [] e = "left" -> [c EXCEPT !.x = c.x - 1]
      [] e = "right" -> [c EXCEPT !.x = c.x + 1]
      [] e = "up" -> [c EXCEPT !.y = c.y - 1]
      [] e = "origin" -> [c EXCEPT !.x = 0, !.y = 0]
      [] e = "enable" -> [c EXCEPT !.mode = 21, !.width = ModeWidth(21),
                                   !.height = ModeHeight(21),
                                   !.outputs = << HomeOutput(c.xid) >>]
      [] e = "mode" -> [c EXCEPT !.mode = 22]
      [] OTHER -> [c EXCEPT !.mode = CHOOSE m \in UnknownModes : TRUE]

\* The empty change set, one controller, both controllers, or the same
\* controller twice.
ChangeSets ==
    {<< >>}
    \cup { << << c, e >> >> : c \in CrtcIds, e \in Edits }
    \cup { << << 1, e1 >>, << 2, e2 >> >> : e1 \in Edits, e2 \in Edits }
    \cup { << << c, "disable" >>, << c, e >> >> :
             c \in CrtcIds, e \in {"right", "origin"} }

Variants == {"XHandle", "ScreenResources"}

ReconcileAndCommit(cs, v) ==
    /\ pc = "idle"
    /\ budget.ops > 0
    /\ Call("commit", [k \in 1..Len(cs) |-> Edit(crtc(crtcs, cs[k][1]), cs[k][2])], v)
    /\ args' = NoArgs
    /\ reads' = { cs[k][1] : k \in 1..Len(cs) }
    /\ UNCHANGED past

-----------------------------------------------------------------------------
(* Another client of the display writes a controller: it turns it off or   *)
(* moves it to the origin.  The server stamps the record.                  *)

\* When, relative to the running operation, a write of another client
\* lands: after the operation read the controller and before the snapshot
\* of apply_new_crtcs ("read"), after the snapshot and before the apply
\* pass wrote the controller ("commit"), after that write ("late"), or
\* after the operation returned ("after").
Applied(c) == \E k \in 1..Len(log) : log[k].call = "apply" /\ log[k].xid = c
When(c) ==
    CASE pc = "called" -> "read"
      [] pc = "done" -> "after"
      [] Applied(c) -> "late"
      [] OTHER -> "commit"

ExternalWrite(c, what) ==
    /\ budget.ext > 0
    /\ crtcs[c].mode # NoMode
    /\ what = "move" => (crtcs[c].x # 0 \/ crtcs[c].y # 0)
    /\ crtcs' = [crtcs EXCEPT ![c] =
                    IF what = "off"
                    THEN [DisabledRecord EXCEPT !.timestamp = crtcs[c].timestamp + 1]
                    ELSE [@ EXCEPT !.x = 0, !.y = 0, !.timestamp = @ + 1]]
    /\ touched' = IF pc = "idle" THEN touched
                  ELSE touched \cup {<< c, When(c) >>}
    /\ budget' = [budget EXCEPT !.ext = @ - 1]
    /\ UNCHANGED << screen, held, pc, op, variant, changed, snapshot, old_crtcs,
                    new_crtcs, new_size, to_apply, idx, result, log,
                    clobbered >>
    /\ UNCHANGED << args, reads, past >>

-----------------------------------------------------------------------------

Next ==
    \/ \E o \in OutputIds : Enable(o)
    \/ \E o \in OutputIds : Disable(o)
    \/ \E o \in OutputIds, m \in ModeIds : SetMode(o, m)
    \/ \E o \in OutputIds, rel \in Relations, o2 \in OutputIds :
            SetPosition(o, rel, o2)
    \/ \E o \in OutputIds, rot \in Rotations : SetRotation(o, rot)
    \/ AllOutputs
    \/ \E cs \in ChangeSets, v \in Variants : ReconcileAndCommit(cs, v)
    \/ Reconcile
    \/ DisableStep
    \/ Resize
    \/ ApplyStep
    \/ Return
    \/ \E c \in CrtcIds, what \in {"off", "move"} : ExternalWrite(c, what)

Spec == Init /\ [][Next]_vars

-----------------------------------------------------------------------------
(* What the claims are stated over.                                        *)

Calls(kind) == { k \in 1..Len(log) : log[k].call = kind }
Writes == Calls("disable") \cup Calls("apply")
Commits == variant # "none"
Returned == pc = "done"
NoExternalWrite == touched = {}
NoWriteSinceSnapshot == \A t \in touched : t[2] = "read"
Backend5(c) ==
    [x |-> crtcs[c].x, y |-> crtcs[c].y, mode |-> crtcs[c].mode,
     rotation |-> crtcs[c].rotation, outputs |-> crtcs[c].outputs]
BackendFits(size, c) ==
    /\ crtcs[c].x + crtcs[c].width <= size.width
    /\ crtcs[c].y + crtcs[c].height <= size.height

-----------------------------------------------------------------------------
\* C1: in every commit the backend writes come in three phases that never
\* interleave: disable writes (each a disabled record), then one resize,
\* then apply writes.  No disable follows the resize, no apply precedes it,
\* there is never a second resize, and a commit that got past its
\* reconciliation (it is applying, or returned Ok or CrtcChanged) has
\* issued exactly one.
C1_ThreePhases ==
    /\ \A i, j \in 1..Len(log) :
          i < j =>
            /\ log[j].call = "disable" => log[i].call = "disable"
            /\ log[i].call = "apply" => log[j].call = "apply"
    /\ \A j \in Calls("apply") : \E i \in Calls("resize") : i < j
    /\ \A k \in Calls("disable") :
          log[k].sent.mode = NoMode /\ log[k].sent.outputs = << >>
    /\ Cardinality(Calls("resize")) <= 1
    /\ (Commits /\ (pc = "apply" \/ (Returned /\ result \in {"Ok", "CrtcChanged"})))
          => Cardinality(Calls("resize")) = 1

\* A commit that returned Ok after two disables, the resize and an apply.
C1_Witness ==
    /\ Returned /\ result = "Ok"
    /\ Cardinality(Calls("disable")) >= 2
    /\ Cardinality(Calls("apply")) >= 2

\* C2: when the resize is about to be issued and no other client wrote since
\* the snapshot, every controller enabled in the backend fits the target
\* size: the server accepts the resize, and every snapshot controller that
\* did not fit has been written as disabled.
C2_FitsAtResize ==
    (pc = "resize" /\ NoWriteSinceSnapshot) =>
        /\ \A c \in CrtcIds : crtcs[c].mode # NoMode => BackendFits(new_size, c)
        /\ ResizeAccepted(crtcs, new_size)
        /\ \A k \in 1..Len(snapshot) :
              ~fits_crtc(new_size, snapshot[k]) =>
                  /\ crtcs[snapshot[k].xid].mode = NoMode
                  /\ \E j \in Calls("disable") : log[j].xid = snapshot[k].xid

\* The resize is about to shrink the screen below a controller that was on.
C2_Witness ==
    /\ pc = "resize" /\ NoWriteSinceSnapshot
    /\ Calls("disable") # {}
    /\ \E c \in CrtcIds : crtcs[c].mode # NoMode
    /\ new_size.width < screen.width

\* C4: when the conflict check meets a paired controller whose new timestamp
\* is older than its old one, the commit returns CrtcChanged and no apply
\* write is issued, also not for entries scheduled before the stale one.
StalePair ==
    \E k \in 1..Len(old_crtcs) :
        /\ k <= Len(new_crtcs)
        /\ new_crtcs[k].timestamp < old_crtcs[k].timestamp
C4_ConflictAbandons ==
    /\ (Commits /\ Calls("resize") # {} /\ StalePair)
          => (Returned /\ result = "CrtcChanged")
    /\ result = "CrtcChanged" => Calls("apply") = {}

\* The stale controller is second in the pairing and the first was scheduled.
C4_Witness ==
    /\ Returned /\ result = "CrtcChanged"
    /\ to_apply = << 1 >>
    /\ new_crtcs[2].timestamp < old_crtcs[2].timestamp

\* C5: after a commit returned Ok with no write of another client during
\* the operation, the backend holds, for every controller of the new
\* topology, the (x, y, mode, rotation, outputs) of the normalized new
\* topology.
C5_BackendMatchesNew ==
    (Commits /\ Returned /\ result = "Ok" /\ NoExternalWrite) =>
        \A k \in 1..Len(new_crtcs) :
            Backend5(new_crtcs[k].xid) = Sent(new_crtcs[k])

\* A controller was disabled in the disable pass and re-applied, and one
\* that is not in the change set was shifted by normalization.
C5_Witness ==
    /\ Commits /\ Returned /\ result = "Ok" /\ NoExternalWrite
    /\ \E j \in Calls("disable") : \E k \in Calls("apply") :
          log[j].xid = log[k].xid /\ log[k].sent.mode # NoMode
    /\ \E k \in 1..Len(new_crtcs) :
          /\ new_crtcs[k].xid \notin ChangedIds(changed)
          /\ new_crtcs[k].x # snapshot[k].x

-----------------------------------------------------------------------------
\* C3: if another client advances the timestamp of a controller of the
\* change set after the caller read it and before the apply pass writes it,
\* the commit returns CrtcChanged and does not write over that change.
C3_ConflictDetected ==
    (Commits /\ Returned) =>
        \A c \in ChangedIds(changed) :
            (<< c, "read" >> \in touched \/ << c, "commit" >> \in touched)
                => (result = "CrtcChanged" /\ c \notin clobbered)

\* C6: a commit with an empty change set issues no disable, no apply and no
\* resize when the current topology is non-empty and anchored at (0, 0).
Anchored(cs) == Len(cs) > 0 /\ LeftOfAll(cs) = 0 /\ TopOfAll(cs) = 0
NoOpCommit ==
    /\ op = "commit" /\ variant = "XHandle" /\ changed = << >>
    /\ NoExternalWrite
    /\ Anchored(snapshot)
C6_NoCallAtAll == NoOpCommit => log = << >>

\* C6 as amended: such a commit issues no disable and no apply; it returns
\* Ok after exactly one resize call, to the covering size of the topology.
C6_OnlyTheResize ==
    NoOpCommit =>
        /\ Writes = {}
        /\ Returned =>
              /\ result = "Ok"
              /\ Len(log) = 1
              /\ log[1].call = "resize"
              /\ log[1].sent = fitting_crtcs(snapshot)
              /\ screen = fitting_crtcs(snapshot)

\* The no-op commit on two enabled controllers has returned.
C6_Witness == NoOpCommit /\ Returned /\ Len(snapshot) = 2

\* C7: a disable or apply call that the backend fails is returned at once as
\* an error, and no later backend call of the commit is issued.
C7_FailurePropagates ==
    \A j \in Writes :
        log[j].status = "Failed" =>
            /\ j = Len(log)
            /\ Returned
            /\ result \notin {"Ok", "none"}

\* C8: every controller record an operation sends has mode 0 exactly when
\* its outputs are empty.
PublicOps == {"enable", "disable", "set_mode", "set_position", "set_rotation"}
C8_ModeIffOutputs ==
    \A j \in Writes :
        (op \in PublicOps \/ log[j].call = "disable") =>
            (log[j].sent.mode = NoMode <=> log[j].sent.outputs = << >>)

\* C9: a controller moved while staying enabled is written as disabled only
\* if its new footprint does not fit the old screen size.  (Read before the
\* resize, while `screen` is still the old size.)
MovedEnabled(c) ==
    /\ HasXid(snapshot, c) /\ HasXid(new_crtcs, c)
    /\ new_crtcs[IndexOf(new_crtcs, c)].mode # NoMode
    /\ << new_crtcs[IndexOf(new_crtcs, c)].x, new_crtcs[IndexOf(new_crtcs, c)].y >>
         # << snapshot[IndexOf(snapshot, c)].x, snapshot[IndexOf(snapshot, c)].y >>
WrittenDisabled(c) ==
    \E j \in Writes : log[j].xid = c /\ log[j].sent.mode = NoMode
C9_NewFootprintOldScreen ==
    (pc \in {"disable", "resize"} /\ NoExternalWrite) =>
        \A c \in CrtcIds :
            (MovedEnabled(c) /\ WrittenDisabled(c))
                => ~fits_crtc(screen, new_crtcs[IndexOf(new_crtcs, c)])

\* C9 as amended: such a controller is written as disabled only if its old
\* footprint does not fit the new (target) screen size.
C9_OldFootprintNewScreen ==
    \A c \in CrtcIds :
        (Commits /\ MovedEnabled(c) /\ WrittenDisabled(c))
            => ~fits_crtc(new_size, snapshot[IndexOf(snapshot, c)])

\* A moved controller went through the disabled state, and was re-applied.
C9_Witness ==
    /\ Returned /\ result = "Ok"
    /\ \E c \in CrtcIds :
          /\ MovedEnabled(c) /\ WrittenDisabled(c)
          /\ \E j \in Calls("apply") : log[j].xid = c /\ log[j].sent.mode # NoMode

-----------------------------------------------------------------------------
(* The same program with a backend whose XRRSetCrtcConfig may fail.        *)

InitFault ==
    /\ InitBackend
    /\ NoLocals
    /\ budget = [ops |-> MaxOps, ext |-> MaxExt, faults |-> TRUE]

SpecFault == InitFault /\ [][Next]_vars

-----------------------------------------------------------------------------
(* normalize_positions on its own: the input is any list of at most MaxLen *)
(* controllers at positions drawn from NormPositions; the helper is        *)
(* applied to it twice.  `changed` keeps the input, `old_crtcs` the list   *)
(* before the last application and `new_crtcs` the list after it.          *)

NormPositions == {-1, 0, 1, I32Max - 1}

NormCrtc(k, px, py) ==
    [xid |-> k, timestamp |-> 1, x |-> px, y |-> py,
     width |-> ModeWidth(21), height |-> ModeHeight(21), mode |-> 21,
     rotation |-> "Normal", outputs |-> << >>, possible |-> << >>]

NormInputs ==
    UNION { { [k \in 1..n |-> NormCrtc(k, xs[k], ys[k])] :
                xs \in [1..n -> NormPositions], ys \in [1..n -> NormPositions] } :
            n \in 0..MaxLen }

InitNorm ==
    /\ args = NoArgs
    /\ reads = {}
    /\ past = << >>
    /\ crtcs = [c \in CrtcIds |-> DisabledRecord]
    /\ screen = [width |-> 0, height |-> 0]
    /\ held = all_outputs(crtcs)
    /\ pc = "norm0"
    /\ op = "normalize_positions"
    /\ variant = "none"
    /\ changed \in NormInputs
    /\ snapshot = << >>
    /\ old_crtcs = changed
    /\ new_crtcs = changed
    /\ new_size = [width |-> 0, height |-> 0]
    /\ to_apply = << >>
    /\ idx = 0
    /\ result = "none"
    /\ log = << >>
    /\ touched = {}
    /\ clobbered = {}
    /\ budget = [ops |-> 0, ext |-> 0, faults |-> FALSE]

Normalize ==
    /\ pc \in {"norm0", "norm1"}
    /\ IF NormalizePanics(new_crtcs)
       THEN Finish("panic") /\ UNCHANGED << old_crtcs, new_crtcs >>
       ELSE /\ old_crtcs' = new_crtcs
            /\ new_crtcs' = normalize_positions(new_crtcs)
            /\ pc' = IF pc = "norm0" THEN "norm1" ELSE "norm2"
            /\ UNCHANGED result
    /\ UNCHANGED << crtcs, screen, held, op, variant, changed, snapshot,
                    new_size, to_apply, idx, log, touched, clobbered, budget >>
    /\ UNCHANGED << args, reads, past >>

NextNorm == Normalize

SpecNorm == InitNorm /\ [][NextNorm]_vars

\* C10: normalize_positions is idempotent: where it completes on a
\* non-empty list, a second application changes nothing, and after it the
\* least x and the least y of the list are 0; an empty list stays empty.
C10_Idempotent ==
    /\ pc = "norm2" => new_crtcs = old_crtcs
    /\ (pc \in {"norm1", "norm2"} /\ Len(changed) > 0) =>
          /\ Len(new_crtcs) = Len(changed)
          /\ LeftOfAll(new_crtcs) = 0
          /\ TopOfAll(new_crtcs) = 0
    /\ (pc \in {"norm1", "norm2"} /\ Len(changed) = 0) => new_crtcs = << >>

\* Two controllers, one left of and one above the origin, normalized twice.
C10_Witness ==
    /\ pc = "norm2"
    /\ Len(changed) = 2
    /\ LeftOfAll(changed) < 0 /\ TopOfAll(changed) = 0
    /\ new_crtcs # changed

\* C11: normalize_positions preserves the relative layout: where it
\* completes, the differences of x and of y between any two controllers are
\* what they were in the input, and no field other than x and y changed.
C11_RelativeLayout ==
    pc \in {"norm1", "norm2"} =>
        /\ Len(new_crtcs) = Len(changed)
        /\ \A i, j \in 1..Len(changed) :
              /\ new_crtcs[i].x - new_crtcs[j].x = changed[i].x - changed[j].x
              /\ new_crtcs[i].y - new_crtcs[j].y = changed[i].y - changed[j].y
        /\ \A k \in 1..Len(changed) :
              [new_crtcs[k] EXCEPT !.x = changed[k].x, !.y = changed[k].y]
                  = changed[k]

\* Two controllers at different x and different y were shifted.
C11_Witness ==
    /\ pc = "norm1"
    /\ Len(changed) = 2
    /\ changed[1].x # changed[2].x /\ changed[1].y # changed[2].y
    /\ new_crtcs[1].x # changed[1].x /\ new_crtcs[1].y # changed[1].y

-----------------------------------------------------------------------------
(* fits_crtc and fitting_crtcs on their own: the input is any list of at   *)
(* most MaxLen controllers with positions from FitXs x FitYs and sizes     *)
(* from FitSizes.  `changed` keeps the input and `new_size` the result.    *)

FitXs == {-1, 0, 1, 1920}
FitYs == {0, 1}
FitSizes == { << 2, 1 >>, << 1920, 1080 >>, << 1280, 1024 >> }

FitCrtc(k, px, py, wh) ==
    [xid |-> k, timestamp |-> 1, x |-> px, y |-> py,
     width |-> wh[1], height |-> wh[2], mode |-> 21,
     rotation |-> "Normal", outputs |-> << >>, possible |-> << >>]

FitInputs ==
    UNION { { [k \in 1..n |-> FitCrtc(k, xs[k], ys[k], whs[k])] :
                xs \in [1..n -> FitXs], ys \in [1..n -> FitYs],
                whs \in [1..n -> FitSizes] } :
            n \in 0..MaxLen }

InitFit ==
    /\ args = NoArgs
    /\ reads = {}
    /\ past = << >>
    /\ crtcs = [c \in CrtcIds |-> DisabledRecord]
    /\ screen = [width |-> 0, height |-> 0]
    /\ held = all_outputs(crtcs)
    /\ pc = "fit0"
    /\ op = "fitting_crtcs"
    /\ variant = "none"
    /\ changed \in FitInputs
    /\ snapshot = << >>
    /\ old_crtcs = << >>
    /\ new_crtcs = << >>
    /\ new_size = [width |-> 0, height |-> 0]
    /\ to_apply = << >>
    /\ idx = 0
    /\ result = "none"
    /\ log = << >>
    /\ touched = {}
    /\ clobbered = {}
    /\ budget = [ops |-> 0, ext |-> 0, faults |-> FALSE]

\* ScreenSize::fitting_crtcs(&changed).
Fit ==
    /\ pc = "fit0"
    /\ IF FittingPanics(changed)
       THEN Finish("panic") /\ UNCHANGED new_size
       ELSE /\ new_size' = fitting_crtcs(changed)
            /\ pc' = "fit1"
            /\ UNCHANGED result
    /\ UNCHANGED << crtcs, screen, held, op, variant, changed, snapshot,
                    old_crtcs, new_crtcs, to_apply, idx, log, touched,
                    clobbered, budget >>
    /\ UNCHANGED << args, reads, past >>

NextFit == Fit

SpecFit == InitFit /\ [][NextFit]_vars

Lower(size) == [width |-> size.width, height |-> size.height - 1]
Narrower(size) == [width |-> size.width - 1, height |-> size.height]

\* C12: for a non-empty list of controllers at non-negative positions,
\* fitting_crtcs returns width = max(x + width) and height =
\* max(y + height): every controller fits, and with the width or the height
\* one less at least one controller does not.
C12_CoveringSizeMinimal ==
    pc = "fit1" =>
        /\ \A k \in 1..Len(changed) :
              /\ changed[k].x + changed[k].width <= new_size.width
              /\ changed[k].y + changed[k].height <= new_size.height
              /\ fits_crtc(new_size, changed[k])
        /\ \E k \in 1..Len(changed) :
              changed[k].x + changed[k].width = new_size.width
        /\ \E k \in 1..Len(changed) :
              changed[k].y + changed[k].height = new_size.height
        /\ \E k \in 1..Len(changed) : ~fits_crtc(Narrower(new_size), changed[k])
        /\ \E k \in 1..Len(changed) : ~fits_crtc(Lower(new_size), changed[k])

\* The widest and the tallest controller are not the same one, and the
\* first controller is neither.
C12_Witness ==
    /\ pc = "fit1"
    /\ Len(changed) = 2
    /\ changed[1].x + changed[1].width < new_size.width
    /\ changed[2].y + changed[2].height < new_size.height

\* The scenario of C13: A = (0, 0, 1920 x 1080), B = (1920, 0, 1280 x 1024).
ScenarioAB ==
    /\ pc = "fit1"
    /\ Len(changed) = 2
    /\ changed[1] = FitCrtc(1, 0, 0, << 1920, 1080 >>)
    /\ changed[2] = FitCrtc(2, 1920, 0, << 1280, 1024 >>)

\* C13: for A and B the covering size is 3200 x 1080, B fits it, and with
\* the height lowered to 1079 neither A nor B fits.
C13_BothFailAt1079 ==
    ScenarioAB =>
        /\ new_size = [width |-> 3200, height |-> 1080]
        /\ fits_crtc(new_size, changed[2])
        /\ ~fits_crtc([width |-> 3200, height |-> 1079], changed[1])
        /\ ~fits_crtc([width |-> 3200, height |-> 1079], changed[2])

\* C13 as amended: the covering size is 3200 x 1080, A and B fit it, and
\* with the height lowered to 1079 A does not fit while B (height 1024)
\* still does.
C13_OnlyAFailsAt1079 ==
    ScenarioAB =>
        /\ new_size = [width |-> 3200, height |-> 1080]
        /\ fits_crtc(new_size, changed[1])
        /\ fits_crtc(new_size, changed[2])
        /\ ~fits_crtc([width |-> 3200, height |-> 1079], changed[1])
        /\ fits_crtc([width |-> 3200, height |-> 1079], changed[2])

C13_Witness == ScenarioAB /\ new_size.width = 3200

-----------------------------------------------------------------------------
(* rotated_size on its own, used as set_rotation uses it: a controller of  *)
(* any size and rotation is given the size rotated_size computes for a     *)
(* target rotation, and that controller is then asked for its size at the  *)
(* first rotation.  `changed` keeps the input, `new_crtcs` the rotated     *)
(* controller, `new_size` the size asked back.                             *)

RotSizes == { << w, h >> : w \in 1..3, h \in 1..3 }

RotCrtc(wh, rot) ==
    [xid |-> 1, timestamp |-> 1, x |-> 0, y |-> 0,
     width |-> wh[1], height |-> wh[2], mode |-> 21,
     rotation |-> rot, outputs |-> << >>, possible |-> << >>]

InitRot ==
    /\ args = NoArgs
    /\ reads = {}
    /\ past = << >>
    /\ crtcs = [c \in CrtcIds |-> DisabledRecord]
    /\ screen = [width |-> 0, height |-> 0]
    /\ held = all_outputs(crtcs)
    /\ pc = "rot0"
    /\ op = "rotated_size"
    /\ variant = "none"
    /\ changed \in { << RotCrtc(wh, rot) >> : wh \in RotSizes, rot \in Rotations }
    /\ snapshot = << >>
    /\ old_crtcs = << >>
    /\ new_crtcs = << >>
    /\ new_size = [width |-> 0, height |-> 0]
    /\ to_apply = << >>
    /\ idx = 0
    /\ result = "none"
    /\ log = << >>
    /\ touched = {}
    /\ clobbered = {}
    /\ budget = [ops |-> 0, ext |-> 0, faults |-> FALSE]

\* (crtc.width, crtc.height) = crtc.rotated_size(rotation);
\* crtc.rotation = rotation;
Rotate(rot) ==
    /\ pc = "rot0"
    /\ new_crtcs' = << [changed[1] EXCEPT
                            !.width = rotated_size(changed[1], rot)[1],
                            !.height = rotated_size(changed[1], rot)[2],
                            !.rotation = rot] >>
    /\ pc' = "rot1"
    /\ UNCHANGED << crtcs, screen, held, op, variant, changed, snapshot,
                    old_crtcs, new_size, to_apply, idx, result, log, touched,
                    clobbered, budget >>
    /\ UNCHANGED << args, reads, past >>

\* rotated_size of the rotated controller, at the first rotation.
RotateBack ==
    /\ pc = "rot1"
    /\ new_size' = [width |-> rotated_size(new_crtcs[1], changed[1].rotation)[1],
                    height |-> rotated_size(new_crtcs[1], changed[1].rotation)[2]]
    /\ pc' = "rot2"
    /\ UNCHANGED << crtcs, screen, held, op, variant, changed, snapshot,
                    old_crtcs, new_crtcs, to_apply, idx, result, log, touched,
                    clobbered, budget >>
    /\ UNCHANGED << args, reads, past >>

NextRot ==
    \/ \E rot \in Rotations : Rotate(rot)
    \/ RotateBack

SpecRot == InitRot /\ [][NextRot]_vars

Sideways(rot) == rot \in {"Left", "Right"}

\* C14: rotated_size swaps width and height exactly when one of the current
\* and the target rotation is Left or Right and the other is Normal or
\* Inverted; asking the rotated controller for its size at the first
\* rotation gives back the first width and height.
C14_RotationRoundTrip ==
    /\ pc \in {"rot1", "rot2"} =>
          << new_crtcs[1].width, new_crtcs[1].height >> =
              IF Sideways(changed[1].rotation) # Sideways(new_crtcs[1].rotation)
              THEN << changed[1].height, changed[1].width >>
              ELSE << changed[1].width, changed[1].height >>
    /\ pc = "rot2" =>
          new_size = [width |-> changed[1].width, height |-> changed[1].height]

\* A controller stored at Left, wider than tall as stored, went to Inverted
\* and back.
C14_Witness ==
    /\ pc = "rot2"
    /\ changed[1].rotation = "Left"
    /\ new_crtcs[1].rotation = "Inverted"
    /\ changed[1].width > changed[1].height
    /\ new_crtcs[1].width < new_crtcs[1].height

-----------------------------------------------------------------------------
(* The position computation of set_position on its own: controller A and   *)
(* reference B are drawn from PlaceAs and PlaceBs, and A is placed by every *)
(* relation.  `changed` keeps << A, B >>, `op` the relation and            *)
(* `new_crtcs` the placed A.                                               *)

PlaceSizes == { << 2, 1 >>, << 400, 300 >>, << 800, 600 >> }

PlaceCrtc(k, px, py, wh) ==
    [xid |-> k, timestamp |-> 1, x |-> px, y |-> py,
     width |-> wh[1], height |-> wh[2], mode |-> 21,
     rotation |-> "Normal", outputs |-> << >>, possible |-> << >>]

PlaceAs == { PlaceCrtc(1, px, 0, wh) : px \in {0, 1}, wh \in PlaceSizes }
PlaceBs == { PlaceCrtc(2, px, py, wh) :
                px \in {0, 1, 500}, py \in {0, 1}, wh \in PlaceSizes }

InitPlace ==
    /\ args = NoArgs
    /\ reads = {}
    /\ past = << >>
    /\ crtcs = [c \in CrtcIds |-> DisabledRecord]
    /\ screen = [width |-> 0, height |-> 0]
    /\ held = all_outputs(crtcs)
    /\ pc = "place0"
    /\ op = "none"
    /\ variant = "none"
    /\ changed \in { << a, b >> : a \in PlaceAs, b \in PlaceBs }
    /\ snapshot = << >>
    /\ old_crtcs = << >>
    /\ new_crtcs = << >>
    /\ new_size = [width |-> 0, height |-> 0]
    /\ to_apply = << >>
    /\ idx = 0
    /\ result = "none"
    /\ log = << >>
    /\ touched = {}
    /\ clobbered = {}
    /\ budget = [ops |-> 0, ext |-> 0, faults |-> FALSE]

\* (crtc.x, crtc.y) = match relation { ... }
Place(rel) ==
    /\ pc = "place0"
    /\ op' = rel
    /\ new_crtcs' = << [changed[1] EXCEPT
                            !.x = Placed(changed[1], rel, changed[2])[1],
                            !.y = Placed(changed[1], rel, changed[2])[2]] >>
    /\ pc' = "place1"
    /\ UNCHANGED << crtcs, screen, held, variant, changed, snapshot,
                    old_crtcs, new_size, to_apply, idx, result, log, touched,
                    clobbered, budget >>
    /\ UNCHANGED << args, reads, past >>

NextPlace == \E rel \in Relations : Place(rel)

SpecPlace == InitPlace /\ [][NextPlace]_vars

\* C15: A's position from reference B is (B.x - A.width, B.y) for LeftOf,
\* (B.x + B.width, B.y) for RightOf, (B.x, B.y - A.height) for Above,
\* (B.x, B.y + B.height) for Below and (B.x, B.y) for SameAs; LeftOf with B
\* at (500, 0), 800 wide, and A 400 wide gives (100, 0).
C15_RelationalPlacement ==
    pc = "place1" =>
        LET a == changed[1]
            b == changed[2]
            at == << new_crtcs[1].x, new_crtcs[1].y >>
        IN  /\ op = "LeftOf" => at = << b.x - a.width, b.y >>
            /\ op = "RightOf" => at = << b.x + b.width, b.y >>
            /\ op = "Above" => at = << b.x, b.y - a.height >>
            /\ op = "Below" => at = << b.x, b.y + b.height >>
            /\ op = "SameAs" => at = << b.x, b.y >>
            /\ (op = "LeftOf" /\ b.x = 500 /\ b.y = 0 /\ b.width = 800
                    /\ a.width = 400) => at = << 100, 0 >>

\* The scenario: A, 400 wide, placed left of B at (500, 0), 800 wide.
C15_Witness ==
    /\ pc = "place1" /\ op = "LeftOf"
    /\ changed[2].x = 500 /\ changed[2].y = 0 /\ changed[2].width = 800
    /\ changed[1].width = 400
    /\ new_crtcs[1].x = 100

-----------------------------------------------------------------------------
(* The public operations, seen from their arguments.                       *)

\* The controller an Output record names (0 for None).
CrtcOf(o) == held[o].crtc

\* No other client wrote since the behaviour began.
Undisturbed == touched = {} /\ budget.ext = MaxExt

RelationHolds(rel, a, b) ==
    CASE rel = "LeftOf" -> a.x + a.width = b.x /\ a.y = b.y
      [] rel = "RightOf" -> a.x = b.x + b.width /\ a.y = b.y
      [] rel = "Above" -> a.y + a.height = b.y /\ a.x = b.x
      [] rel = "Below" -> a.y = b.y + b.height /\ a.x = b.x
      [] OTHER -> a.x = b.x /\ a.y = b.y

\* set_position(A, rel, B) on two different enabled controllers returned Ok.
Positioned ==
    /\ op = "set_position" /\ Returned /\ result = "Ok"
    /\ Undisturbed
    /\ CrtcOf(args.out) # CrtcOf(args.ref)
    /\ HasXid(snapshot, CrtcOf(args.out))
    /\ HasXid(snapshot, CrtcOf(args.ref))

\* C16: after set_position(A, relation, B) returned Ok with no write of
\* another client, the positions the backend holds for the controllers of A
\* and B satisfy the relation, and every controller's x and y are
\* non-negative, also when LeftOf or Above gave a negative coordinate
\* before normalization.
C16_RelationInBackend ==
    Positioned =>
        /\ RelationHolds(args.rel, crtcs[CrtcOf(args.out)], crtcs[CrtcOf(args.ref)])
        /\ \A c \in CrtcIds : crtcs[c].x >= 0 /\ crtcs[c].y >= 0

\* LeftOf gave A a negative x; normalization moved the reference.
C16_Witness ==
    /\ Positioned
    /\ args.rel = "LeftOf"
    /\ changed[1].x < 0
    /\ crtcs[CrtcOf(args.ref)].x > snapshot[IndexOf(snapshot, CrtcOf(args.ref))].x

\* C19: set_mode, set_position and set_rotation on an output whose record
\* has no controller (for set_position the output or, if that has one, the
\* reference output) return OutputDisabled naming that output, without
\* reading a controller from the backend and without writing to it.
Refused(o) ==
    /\ Returned
    /\ result = (CASE o = 11 -> "OutputDisabled(11)"
                   [] o = 12 -> "OutputDisabled(12)"
                   [] OTHER -> "OutputDisabled(13)")
    /\ log = << >>
    /\ reads = {}
    /\ changed = << >>
C19_OutputDisabled ==
    /\ (op \in {"set_mode", "set_position", "set_rotation"}
            /\ CrtcOf(args.out) = 0) => Refused(args.out)
    /\ (op = "set_position" /\ CrtcOf(args.out) # 0 /\ CrtcOf(args.ref) = 0)
          => Refused(args.ref)

\* set_position of an enabled output relative to one without a controller.
C19_Witness ==
    /\ op = "set_position"
    /\ CrtcOf(args.out) # 0 /\ CrtcOf(args.ref) = 0
    /\ Refused(args.ref)

-----------------------------------------------------------------------------
(* enable and disable called one after the other, as the test              *)
(* can_disable_enable_output calls them: the caller keeps its Output       *)
(* records unless it calls all_outputs again; no other client writes.      *)

InitToggle ==
    /\ InitBackend
    /\ NoLocals
    /\ budget = [ops |-> MaxToggles, ext |-> 0, faults |-> FALSE]

NextToggle ==
    \/ \E o \in OutputIds : Enable(o)
    \/ \E o \in OutputIds : Disable(o)
    \/ AllOutputs
    \/ Reconcile
    \/ DisableStep
    \/ Resize
    \/ ApplyStep
    \/ Return

SpecToggle == InitToggle /\ [][NextToggle]_vars

LastCall == past[Len(past)]
Driver(o) == ServerOutputCrtc(crtcs, o)

\* C17: for an enabled output, disable(output) and then enable(output) with
\* the Output record obtained before the disable both return Ok; after the
\* disable the controller has mode 0 and no outputs, and after the enable the
\* output is driven again, by a controller at the output's first preferred
\* mode.
C17_DisableThenEnable ==
    \A o \in OutputIds :
        /\ (op = "disable" /\ args.out = o /\ Returned /\ past = << >>
                /\ held[o].current_mode # 0)
              => /\ result = "Ok"
                 /\ crtcs[CrtcOf(o)].mode = NoMode
                 /\ crtcs[CrtcOf(o)].outputs = << >>
        /\ (op = "enable" /\ args.out = o /\ Returned /\ Len(past) = 1
                /\ LastCall.op = "disable" /\ LastCall.out = o
                /\ held[o].current_mode # 0)
              => /\ result = "Ok"
                 /\ LastCall.result = "Ok"
                 /\ Driver(o) # 0
                 /\ crtcs[Driver(o)].mode = Head(PreferredModes(o))

\* The call returned Ok without reading a controller or writing anything.
NoOpCall == Returned /\ result = "Ok" /\ log = << >> /\ reads = {}

\* The same call, on the same output, returned Ok after writing to the
\* backend, and the caller has read its Output records again since.
RepeatedAfterReread ==
    /\ Len(past) >= 2
    /\ LastCall.op = "all_outputs"
    /\ past[Len(past) - 1].op = op
    /\ past[Len(past) - 1].out = args.out
    /\ past[Len(past) - 1].result = "Ok"
    /\ past[Len(past) - 1].writes > 0

C20_EnableFindsFreeCrtc ==
    /\ (op = "enable" /\ pc = "called") =>
          /\ Len(changed) = 1
          /\ Contains(Possible(changed[1].xid), args.out)
          /\ crtcs[changed[1].xid].outputs = << >>
          /\ changed[1].outputs = << args.out >>
    /\ (op = "enable" /\ Returned /\ result = "NoCrtcAvailable") =>
          /\ log = << >>
          /\ \A c \in CrtcIds :
                ~(Contains(Possible(c), args.out) /\ crtcs[c].outputs = << >>)
    /\ (op = "enable" /\ Returned /\ result = "NoPreferredModes") =>
          /\ log = << >>
          /\ PreferredModes(args.out) = << >>
    /\ (op = "enable" /\ log = << >> /\ held[args.out].current_mode = 0) =>
          /\ PreferredModes(args.out) = << >>
                => (Returned /\ result = "NoPreferredModes")
          /\ (/\ PreferredModes(args.out) # << >>
              /\ \A c \in CrtcIds :
                    ~(Contains(Possible(c), args.out) /\ crtcs[c].outputs = << >>))
                => (Returned /\ result = "NoCrtcAvailable")

\* Both controllers drive an output and a third enable found none free.
C20_Witness ==
    /\ op = "enable" /\ Returned /\ result = "NoCrtcAvailable"
    /\ \A c \in CrtcIds : crtcs[c].outputs # << >>
    /\ Len(past) = 1 /\ LastCall.writes > 0

-----------------------------------------------------------------------------
(* The buffers the backend hands out, and their release.  Property::get    *)
(* (output/property.rs) frees by hand; Crtc::from_xid (crtc.rs) holds its  *)
(* buffer in the CrtcInfo wrapper, freed on drop; ScreenResources::crtc    *)
(* frees by hand before it looks at the result.  `args` keeps what the     *)
(* server will answer about the property, `log` the acquisitions and       *)
(* releases, one entry per buffer.                                         *)

PropNames == {"EDID", "GUID", "other"}
ValueTypes == {"Atom", "Int", "Card", "Unrecognized"}
Buffers == {"prop", "info", "crtc_info"}

Acquire(buf) ==
    log' = Append(log, [call |-> "acquire", xid |-> buf, sent |-> op,
                        status |-> "Success"])
Release(buf) ==
    [call |-> "release", xid |-> buf, sent |-> op, status |-> "Success"]

InitRelease ==
    /\ args \in [name : PropNames, value_type : ValueTypes, num_values : 0..1]
    /\ reads = {}
    /\ past = << >>
    /\ crtcs = [c \in CrtcIds |-> DisabledRecord]
    /\ screen = [width |-> 0, height |-> 0]
    /\ held = all_outputs(crtcs)
    /\ \/ op = "Property::get" /\ pc = "get0"
       \/ op = "Crtc::from_xid" /\ pc = "from_xid0"
       \/ op = "ScreenResources::crtc" /\ pc = "crtc0"
    /\ variant = "none"
    /\ changed = << >>
    /\ snapshot = << >>
    /\ old_crtcs = << >>
    /\ new_crtcs = << >>
    /\ new_size = [width |-> 0, height |-> 0]
    /\ to_apply = << >>
    /\ idx = 0
    /\ result = "none"
    /\ log = << >>
    /\ touched = {}
    /\ clobbered = {}
    /\ budget = [ops |-> 0, ext |-> 0, faults |-> FALSE]

ReleaseFrame ==
    UNCHANGED << crtcs, screen, held, op, variant, changed, snapshot,
                 old_crtcs, new_crtcs, new_size, to_apply, idx, touched,
                 clobbered, budget, args, reads, past >>

\* let name = atom_name(&mut handle.sys, id)?;
PropAtomName(ok) ==
    /\ pc = "get0"
    /\ IF ok THEN pc' = "get1" /\ UNCHANGED result
       ELSE Finish("GetAtomName")
    /\ UNCHANGED log
    /\ ReleaseFrame

\* XRRGetOutputProperty; a non-zero status returns with nothing allocated.
PropGetOutputProperty(status) ==
    /\ pc = "get1"
    /\ IF status = 0
       THEN Acquire("prop") /\ pc' = "get2" /\ UNCHANGED result
       ELSE Finish("GetOutputProp") /\ UNCHANGED log
    /\ ReleaseFrame

\* Self::get_value(...)?: only Value::from_atom can fail.
PropGetValue(ok) ==
    /\ pc = "get2"
    /\ IF args.name \in {"EDID", "GUID"} \/ args.value_type # "Atom" \/ ok
       THEN pc' = "get3" /\ UNCHANGED result
       ELSE Finish("GetAtomName")
    /\ UNCHANGED log
    /\ ReleaseFrame

\* NonNull::new(XRRQueryOutputProperty(...)).ok_or(GetOutputProp)?
PropQueryOutputProperty(null) ==
    /\ pc = "get3"
    /\ IF null
       THEN Finish("GetOutputProp") /\ UNCHANGED log
       ELSE Acquire("info") /\ pc' = "get4" /\ UNCHANGED result
    /\ ReleaseFrame

\* Self::get_values(...)?: only the from_atom arms can fail.
PropGetValues(ok) ==
    /\ pc = "get4"
    /\ IF args.num_values = 0 \/ args.value_type # "Atom" \/ ok
       THEN pc' = "get5" /\ UNCHANGED result
       ELSE Finish("GetAtomName")
    /\ UNCHANGED log
    /\ ReleaseFrame

\* XFree(info); XFree(prop); Ok(Self { .. })
PropFree ==
    /\ pc = "get5"
    /\ log' = log \o << Release("info"), Release("prop") >>
    /\ Finish("Ok")
    /\ ReleaseFrame

\* CrtcInfo::new(handle, xid)?
FromXidGetCrtcInfo(null) ==
    /\ pc = "from_xid0"
    /\ IF null
       THEN Finish("GetCrtcInfo") /\ UNCHANGED log
       ELSE Acquire("crtc_info") /\ pc' = "from_xid1" /\ UNCHANGED result
    /\ ReleaseFrame

\* Rotation::try_from(*rotation)? and Ok(Self { .. }): crtc_info goes out of
\* scope on either path and its Drop frees the buffer.
FromXidReturn(ok) ==
    /\ pc = "from_xid1"
    /\ log' = Append(log, Release("crtc_info"))
    /\ Finish(IF ok THEN "Ok" ELSE "InvalidRotation")
    /\ ReleaseFrame

\* ScreenResources::crtc: NonNull::new(XRRGetCrtcInfo(...)).ok_or(..)?
CrtcGetCrtcInfo(null) ==
    /\ pc = "crtc0"
    /\ IF null
       THEN Finish("GetCrtcInfo") /\ UNCHANGED log
       ELSE Acquire("crtc_info") /\ pc' = "crtc1" /\ UNCHANGED result
    /\ ReleaseFrame

\* Crtc::new(..); XRRFreeCrtcInfo(ptr); crtc.map_err(..)
CrtcReturn(ok) ==
    /\ pc = "crtc1"
    /\ log' = Append(log, Release("crtc_info"))
    /\ Finish(IF ok THEN "Ok" ELSE "GetCrtcInfo")
    /\ ReleaseFrame

NextRelease ==
    \/ \E ok \in BOOLEAN : PropAtomName(ok)
    \/ \E status \in {0, 1} : PropGetOutputProperty(status)
    \/ \E ok \in BOOLEAN : PropGetValue(ok)
    \/ \E null \in BOOLEAN : PropQueryOutputProperty(null)
    \/ \E ok \in BOOLEAN : PropGetValues(ok)
    \/ PropFree
    \/ \E null \in BOOLEAN : FromXidGetCrtcInfo(null)
    \/ \E ok \in BOOLEAN : FromXidReturn(ok)
    \/ \E null \in BOOLEAN : CrtcGetCrtcInfo(null)
    \/ \E ok \in BOOLEAN : CrtcReturn(ok)

SpecRelease == InitRelease /\ [][NextRelease]_vars

Acquired(buf) == { k \in 1..Len(log) : log[k].call = "acquire" /\ log[k].xid = buf }
Released(buf) == { k \in 1..Len(log) : log[k].call = "release" /\ log[k].xid = buf }

\* C21: every buffer a function acquired from the backend has been released
\* exactly once when the function has returned, on the error returns too,
\* and no buffer is released that is not held.
C21_ReleasedExactlyOnce ==
    \A buf \in Buffers :
        /\ Cardinality(Released(buf)) <= Cardinality(Acquired(buf))
        /\ Returned => Cardinality(Released(buf)) = Cardinality(Acquired(buf))

-----------------------------------------------------------------------------
(* The new topology of a commit, once apply_new_crtcs has built it.        *)

Built == Commits /\ pc \notin {"idle", "called"} /\ result # "GetModeInfo"

\* The entries of the change set with this id, and the version the new
\* topology is to hold: the last one supplied, or the snapshot's copy.
Supplied(xid) == { k \in 1..Len(changed) : changed[k].xid = xid }
Wanted(c) ==
    IF Supplied(c.xid) = {} THEN c ELSE changed[SetMax(Supplied(c.xid))]

\* What neither normalization nor the mode table changes of a record.
Kept(c) ==
    [xid |-> c.xid, timestamp |-> c.timestamp, mode |-> c.mode,
     rotation |-> c.rotation, outputs |-> c.outputs]

SnapshotIds == { snapshot[k].xid : k \in 1..Len(snapshot) }
SuppliedTwice ==
    \E i, j \in 1..Len(changed) :
        /\ i < j
        /\ changed[i].xid = changed[j].xid
        /\ Kept(changed[i]) # Kept(changed[j])

\* C22: the new topology holds, in snapshot order, one entry per enabled
\* controller of the snapshot (the change set's last version of it if the
\* change set names it, else the snapshot's copy, both up to the common shift
\* of normalization), followed by the change-set entries whose id is not in
\* the snapshot; every id occurs exactly once.
C22_NewTopology ==
    Built =>
        /\ Len(new_crtcs) =
              Len(snapshot) + Cardinality(ChangedIds(changed) \ SnapshotIds)
        /\ \A i, j \in 1..Len(new_crtcs) :
              i # j => new_crtcs[i].xid # new_crtcs[j].xid
        /\ \A k \in 1..Len(snapshot) :
              /\ Kept(new_crtcs[k]) = Kept(Wanted(snapshot[k]))
              /\ variant = "XHandle" =>
                    /\ new_crtcs[k].width = Wanted(snapshot[k]).width
                    /\ new_crtcs[k].height = Wanted(snapshot[k]).height
        /\ \A k \in (Len(snapshot) + 1)..Len(new_crtcs) :
              /\ new_crtcs[k].xid \in ChangedIds(changed) \ SnapshotIds
              /\ Kept(new_crtcs[k]) = Kept(Wanted(new_crtcs[k]))
        /\ \A i, j \in 1..Len(snapshot) :
              /\ new_crtcs[i].x - new_crtcs[j].x =
                    Wanted(snapshot[i]).x - Wanted(snapshot[j]).x
              /\ new_crtcs[i].y - new_crtcs[j].y =
                    Wanted(snapshot[i]).y - Wanted(snapshot[j]).y

C22_Witness ==
    /\ Built
    /\ pc = "resize"
    /\ SuppliedTwice
    /\ Len(new_crtcs) > Len(snapshot)

-----------------------------------------------------------------------------
\* The entry of the new topology for the controller the operation edits.
Target == { k \in 1..Len(new_crtcs) : new_crtcs[k].xid = changed[1].xid }
Sized == Built /\ result # "panic"

\* C23: when set_mode changes a controller's mode, the target screen size of
\* the commit covers the controller at the width and height of the target
\* mode, not at the dimensions it had under the previous mode.
C23_SizeFromTargetMode ==
    (op = "set_mode" /\ Sized) =>
        \A k \in Target :
            /\ new_crtcs[k].x + ServerWidth(args.mode, new_crtcs[k].rotation)
                  <= new_size.width
            /\ new_crtcs[k].y + ServerHeight(args.mode, new_crtcs[k].rotation)
                  <= new_size.height

-----------------------------------------------------------------------------
(* set_rotation on a backend whose controllers may already be rotated.     *)

InitRotated ==
    /\ crtcs \in [CrtcIds -> UNION { {DisabledRecord} \cup
                    { EnabledRecord(c, m, rot, px, 0) :
                        m \in ModeIds, rot \in Rotations, px \in 0..MaxPos } :
                    c \in CrtcIds }]
    /\ \A c \in CrtcIds :
          crtcs[c] = DisabledRecord \/ crtcs[c].outputs = << HomeOutput(c) >>
    /\ screen = BoundingBox(crtcs)
    /\ held = all_outputs(crtcs)
    /\ NoLocals
    /\ budget = [ops |-> MaxOps, ext |-> MaxExt, faults |-> FALSE]

NextRotated ==
    \/ \E o \in OutputIds, rot \in Rotations : SetRotation(o, rot)
    \/ AllOutputs
    \/ Reconcile
    \/ DisableStep
    \/ Resize
    \/ ApplyStep
    \/ Return
    \/ \E c \in CrtcIds, what \in {"off", "move"} : ExternalWrite(c, what)

SpecRotated == InitRotated /\ [][NextRotated]_vars

Covered(size, c, w, h) == c.x + w <= size.width /\ c.y + h <= size.height

-----------------------------------------------------------------------------
\* The change set's version of some controller names a mode the mode table
\* does not hold.
UnknownModeInTopology ==
    \E k \in 1..Len(changed) :
        /\ k = SetMax(Supplied(changed[k].xid))
        /\ changed[k].mode \in UnknownModes

-----------------------------------------------------------------------------
Resized == Commits /\ Calls("resize") # {}
NewOnly == (Len(old_crtcs) + 1)..Len(new_crtcs)

\* C26: in the positional pairing of the old and the new topology every
\* paired entry has the same controller id on both sides and no entry is on
\* the old side only, so neither assertion of the pairing fires; when the
\* pairing runs to its end, every entry on the new side only is scheduled
\* for application, whatever its timestamp.
C26_PairingAligned ==
    /\ Built =>
          /\ Len(old_crtcs) <= Len(new_crtcs)
          /\ \A k \in 1..Len(old_crtcs) : old_crtcs[k].xid = new_crtcs[k].xid
    /\ Resized =>
          /\ result # "panic"
          /\ (pc = "apply" \/ result = "Ok") =>
                \A k \in NewOnly : Contains(to_apply, k)

C26_Witness ==
    /\ Resized
    /\ pc = "done"
    /\ result = "Ok"
    /\ Len(old_crtcs) >= 1
    /\ \E k \in NewOnly :
          /\ Contains(to_apply, k)
          /\ Applied(new_crtcs[k].xid)
          /\ \E j \in 1..Len(old_crtcs) :
                new_crtcs[k].timestamp < old_crtcs[j].timestamp

-----------------------------------------------------------------------------
WritesTo(c) == { k \in Writes : log[k].xid = c }
DisabledInPass(c) == \E k \in Calls("disable") : log[k].xid = c
NewStateEnabled(c) ==
    \E k \in 1..Len(new_crtcs) :
        new_crtcs[k].xid = c /\ new_crtcs[k].mode # NoMode

\* At most two writes to a controller; two are a disable (mode 0, no
\* outputs) before the resize and an apply of the new state after it.
AtMostTwoWrites(c) ==
    /\ Cardinality(WritesTo(c)) <= 2
    /\ \A i, j \in WritesTo(c) :
          i < j =>
              /\ log[i].call = "disable"
              /\ log[i].sent.mode = NoMode
              /\ log[i].sent.outputs = << >>
              /\ log[j].call = "apply"
              /\ \E r \in Calls("resize") : i < r /\ r < j
              /\ \E k \in 1..Len(new_crtcs) :
                    new_crtcs[k].xid = c /\ log[j].sent = Sent(new_crtcs[k])

\* C27: within one commit each controller receives at most two backend
\* writes, a disable before the resize and the apply of its new state after
\* it, and a controller disabled in the disable pass whose new state is
\* enabled has received that second write when the commit returns.
C27_DisabledThenReapplied ==
    Commits =>
        \A c \in CrtcIds :
            /\ AtMostTwoWrites(c)
            /\ (Returned /\ DisabledInPass(c) /\ NewStateEnabled(c)) =>
                  Applied(c)

\* C27 (amended): the same, for a commit that the conflict check does not
\* abandon.
C27_ReappliedUnlessAbandoned ==
    Commits =>
        \A c \in CrtcIds :
            /\ AtMostTwoWrites(c)
            /\ (Returned /\ result # "CrtcChanged" /\ DisabledInPass(c)
                  /\ NewStateEnabled(c)) =>
                  Applied(c)

C27_Witness ==
    /\ Commits
    /\ Returned
    /\ result = "Ok"
    /\ \E c \in CrtcIds :
          /\ DisabledInPass(c)
          /\ NewStateEnabled(c)
          /\ Cardinality(WritesTo(c)) = 2

-----------------------------------------------------------------------------
\* A controller the commit has no reason to write: it is not in the change
\* set, and it is off, or normalization left it where it was and its
\* geometry fits the target size.
LeftAlone(c) ==
    /\ c \notin ChangedIds(changed)
    /\ \A k \in 1..Len(snapshot) :
          snapshot[k].xid = c =>
              /\ new_crtcs[k].x = snapshot[k].x
              /\ new_crtcs[k].y = snapshot[k].y
              /\ Covered(new_size, snapshot[k], snapshot[k].width,
                         snapshot[k].height)

\* C28: in a commit of XHandle::apply_new_crtcs a controller that is not in
\* the change set, whose position normalization does not change and whose
\* geometry fits the target size receives no backend write.
C28_UntouchedNotWritten ==
    (variant = "XHandle" /\ Sized) =>
        \A c \in CrtcIds : LeftAlone(c) => WritesTo(c) = {}

C28_Witness ==
    /\ variant = "XHandle"
    /\ Sized
    /\ Returned
    /\ result = "Ok"
    /\ \E c, d \in CrtcIds :
          /\ c \in SnapshotIds
          /\ LeftAlone(c)
          /\ \E k \in 1..Len(snapshot) :
                snapshot[k].xid = c /\ snapshot[k].x + snapshot[k].width = new_size.width
          /\ Cardinality(WritesTo(d)) = 2

-----------------------------------------------------------------------------
StillEnabled == { k \in 1..Len(new_crtcs) : new_crtcs[k].mode # NoMode }
\* The controllers of the snapshot that the commit disables.
TurnedOff == { k \in 1..Len(snapshot) : new_crtcs[k].mode = NoMode }

\* C29: after a commit that disables a controller, the screen size set by
\* the resize is the minimal covering size of the controllers still enabled
\* in the new topology: the width and height of the disabled controller do
\* not contribute.
C29_DisabledDoesNotContribute ==
    (Resized /\ TurnedOff # {} /\ StillEnabled # {}) =>
        \A r \in Calls("resize") :
            /\ log[r].sent.width =
                  SetMax({ new_crtcs[k].x + new_crtcs[k].width : k \in StillEnabled })
            /\ log[r].sent.height =
                  SetMax({ new_crtcs[k].y + new_crtcs[k].height : k \in StillEnabled })

-----------------------------------------------------------------------------
NonNegative(cs) == \A k \in 1..Len(cs) : cs[k].x >= 0 /\ cs[k].y >= 0
BackendNonNegative == \A c \in CrtcIds : crtcs[c].x >= 0 /\ crtcs[c].y >= 0

\* C30: in a commit started by enable, disable, set_mode, set_position or
\* set_rotation on a backend whose controllers have non-negative positions no
\* fatal assertion fires: the topology given to fitting_crtcs is not empty,
\* the normalized new topology and the old snapshot of the disable pass have
\* x >= 0 and y >= 0 at every controller, and the commit does not panic.
C30_NoAssertionFires ==
    /\ BackendNonNegative
    /\ (op \in PublicOps /\ Commits) => result # "panic"
    /\ (op \in PublicOps /\ Built) =>
          /\ Len(new_crtcs) > 0
          /\ NonNegative(new_crtcs)
          /\ NonNegative(old_crtcs)
          /\ NonNegative(snapshot)

C30_Witness ==
    /\ op = "set_position"
    /\ Returned
    /\ result = "Ok"
    /\ changed[1].x < 0
    /\ Len(new_crtcs) = 2
    /\ Calls("disable") # {}
====
